---------------------------- MODULE Spec2Model ----------------------------
(***************************************************************************)
(* Model of the chest X-ray viewer: app.py (the Streamlit script main())   *)
(* and src/model_library.py (XRVModelLibrary).                             *)
(*                                                                         *)
(* A Streamlit script is rerun from its first line for every widget event  *)
(* of the session.  A button (st.sidebar.button, st.form_submit_button)    *)
(* returns True only in the run whose rerun request carries its trigger;   *)
(* rerun requests that arrive before the next run starts are coalesced,    *)
(* their triggers or-ed.  A run in progress is abandoned at its next       *)
(* st.* call when a rerun request is waiting.                              *)
(***************************************************************************)
EXTENDS Integers, Sequences, FiniteSets, TLC

(***************************************************************************)
(* Program constants and the bounds of the model                           *)
(***************************************************************************)
\* app.py:29
NUM_RESULTS == 5

\* app.py:27 (two of the eight method names; the name only selects the backend)
CAM_METHODS == {"GradCAM", "LayerCAM"}

\* app.py:28
MODEL_SOURCES == {"XRV"}

\* model_library.py:23-31 (two of the seven weight names)
CHOICES == {"densenet121-res224-all", "densenet121-res224-rsna"}

\* the attribution backend returns between 1 and MaxMaps raw maps
MaxMaps == 2

\* the user fills in the feedback fields of the first MaxEdits results only
MaxEdits == 1

\* Python's None for an image, a model, a target layer
NoImage == <<>>
None == "None"

\* Images are represented by the pixel intensities of the single-channel
\* tensor that the torchvision transform of preprocess yields (grayscale,
\* centre crop and resize are torchvision's): one constant image and two with
\* distinct intensities.
Images == {<<1, 1, 1>>, <<0, 2, 2>>}

\* the image the metadata store serves for the one filename it lists
StoreImage == <<0, 1, 2>>

\* comments a user may type into st.text_area
Comments == {"", "agree"}

(***************************************************************************)
(* model_library.py: XRVModelLibrary                                       *)
(***************************************************************************)
\* model.targets of the DenseNet built for a weight name
Targets(choice) ==
    IF choice = "densenet121-res224-all"
    THEN <<"Atelectasis", "Consolidation", "Infiltration", "Pneumothorax",
           "Edema", "Emphysema", "Fibrosis">>
    ELSE <<"rsna-0", "rsna-1", "rsna-2", "rsna-3", "rsna-4", "Pneumonia",
           "Lung Opacity">>

\* model.features[10][-1][5] of the DenseNet built for a weight name
FeatureLayer(choice) == "layer:" \o choice

\* AbstractModelLibrary.__init__ followed by XRVModelLibrary.__init__
AbstractModelLibrary == [CHOICES |-> {}, LABELS |-> <<>>, TARGET_LAYER |-> None]
XRVModelLibrary == [AbstractModelLibrary EXCEPT !.CHOICES = CHOICES]

\* get_model: sets LABELS and TARGET_LAYER of the library, returns the model
get_model_lib_unset(lib, choice) == lib
get_model_lib(lib, choice) ==
    [lib EXCEPT !.LABELS = Targets(choice), !.TARGET_LAYER = FeatureLayer(choice)]

SeqMin(s) == CHOOSE m \in {s[k] : k \in DOMAIN s} : \A k \in DOMAIN s : m <= s[k]
SeqMax(s) == CHOOSE m \in {s[k] : k \in DOMAIN s} : \A k \in DOMAIN s : m >= s[k]

\* A float is the fraction num/den; den = 0 is the NaN that 0/0 yields.
NaN == [num |-> 0, den |-> 0]
IsNaN(x) == x.den = 0

\* 2048*(t - img_min)/(img_max - img_min) - 1024, elementwise
Rescale(t, img_min, img_max) ==
    IF img_max - img_min = 0
    THEN NaN
    ELSE [num |-> 2048 * (t - img_min) - 1024 * (img_max - img_min),
          den |-> img_max - img_min]

\* preprocess: (transformed_output, rescaled_output)
preprocess(img) ==
    LET transformed_output == img
        img_min == SeqMin(transformed_output)
        img_max == SeqMax(transformed_output)
    IN  [transformed |-> transformed_output,
         rescaled |-> [k \in DOMAIN transformed_output |->
                          Rescale(transformed_output[k], img_min, img_max)]]


(***************************************************************************)
(* app.py: the pure steps of main()                                        *)
(***************************************************************************)
\* model(x): the score vector of an eval-mode DenseNet, one sigmoid output
\* per target, a function of the weights and of the input alone.  A NaN
\* input yields NaN scores.  Scores are hundredths.
Salt(choice) == IF choice = "densenet121-res224-all" THEN 1 ELSE 3
InputHash(x) ==
    LET RECURSIVE H(_)
        H(k) == IF k = 0 THEN 0 ELSE H(k - 1) + k * (x[k].num \div x[k].den)
    IN  H(Len(x))
Forward(choice, x) ==
    IF \E k \in DOMAIN x : IsNaN(x[k])
    THEN [c \in 1..Len(Targets(choice)) |-> NaN]
    ELSE [c \in 1..Len(Targets(choice)) |->
             [num |-> ((c * c + Salt(choice) * c + InputHash(x)) % 5) * 20,
              den |-> 100]]

\* torch.topk(scores, k).indices: the k 0-based indices of the largest
\* scores, largest first; NaN ranks above every number; equal scores keep
\* index order.
Key(s) == IF IsNaN(s) THEN 1000 ELSE s.num
Better(scores, a, b) ==
    \/ Key(scores[a]) > Key(scores[b])
    \/ Key(scores[a]) = Key(scores[b]) /\ a < b
RECURSIVE TopKFrom(_, _, _)
TopKFrom(scores, k, left) ==
    IF k = 0 \/ left = {}
    THEN <<>>
    ELSE LET best == CHOOSE a \in left : \A b \in left \ {a} : Better(scores, a, b)
         IN  <<best - 1>> \o TopKFrom(scores, k - 1, left \ {best})
topk(scores, k) == TopKFrom(scores, k, DOMAIN scores)

\* class_ids[i].item()
SelectTarget_top(class_ids, i) == class_ids[1]
SelectTarget(class_ids, i) == class_ids[i + 1]

\* model_lib.LABELS[class_idx]; an index outside the list raises IndexError
LabelOf(LABELS, class_idx) ==
    IF class_idx + 1 \in DOMAIN LABELS THEN LABELS[class_idx + 1] ELSE "IndexError"

\* cam_extractor(class_idx=..., scores=out): n raw maps, each computed from
\* the extractor's model and layer, the class and the scores handed in
cam_call(extractor, class_idx, scores, n) ==
    [j \in 1..n |-> [kind |-> "raw", layer |-> extractor.target_layer,
                     class_idx |-> class_idx, pass |-> scores.pass,
                     part |-> j, parts |-> 1]]

\* cam_extractor.fuse_cams(maps)
fuse_cams(maps) ==
    [maps[1] EXCEPT !.kind = "fused", !.part = 0, !.parts = Len(maps)]

\* activation_maps[0] if len(activation_maps) == 1 else fuse_cams(...)
FuseIfSeveral_always(activation_maps) ==
    [map |-> fuse_cams(activation_maps), fuse_calls |-> 1]
FuseIfSeveral(activation_maps) ==
    IF Len(activation_maps) = 1
    THEN [map |-> activation_maps[1], fuse_calls |-> 0]
    ELSE [map |-> fuse_cams(activation_maps), fuse_calls |-> 1]

\* str() of a bool; truth value of feedback_submitted (None, False or True)
Str(b) == IF b THEN "True" ELSE "False"
Truthy_notNone(v) == v # None
Truthy(v) == v = "True"

\* Feedback.insert(key, value): the record is an ordered mapping
FeedbackInsert(data, key, value) ==
    IF \E k \in DOMAIN data : data[k].key = key
    THEN [k \in DOMAIN data |->
             IF data[k].key = key THEN [key |-> key, value |-> value] ELSE data[k]]
    ELSE Append(data, [key |-> key, value |-> value])

\* for i in range(NUM_RESULTS): insert result%d_confirm, result%d_comment
RECURSIVE InsertLoop(_, _, _, _, _)
InsertLoop(data, ok, comment, i, n) ==
    IF i >= n
    THEN data
    ELSE InsertLoop(
            FeedbackInsert(
                FeedbackInsert(data, "result" \o ToString(i) \o "_confirm", Str(ok[i + 1])),
                "result" \o ToString(i) \o "_comment", comment[i + 1]),
            ok, comment, i + 1, n)
BuildFeedback_short(ok, comment) == InsertLoop(<<>>, ok, comment, 0, NUM_RESULTS - 1)
BuildFeedback(ok, comment) == InsertLoop(<<>>, ok, comment, 0, NUM_RESULTS)

\* the checks that follow a pressed Diagnose button, in the script's order
Preconditions_noImageCheck(img, model, cam_method) ==
    IF model = None THEN "Please select a classification model"
    ELSE IF cam_method = None THEN "Please select CAM method."
    ELSE "passed"
Preconditions(img, model, cam_method) ==
    IF img = NoImage THEN "Please upload an image first"
    ELSE IF model = None THEN "Please select a classification model"
    ELSE IF cam_method = None THEN "Please select CAM method."
    ELSE "passed"

(***************************************************************************)
(* State                                                                   *)
(***************************************************************************)
VARIABLES
    \* the session's widget state, kept by the browser between script runs
    ui_image_filename,  \* "Image Filename" selectbox: None or a store filename
    ui_uploaded_file,   \* file_uploader: NoImage or the uploaded image
    ui_model_choice,    \* "Model choice" selectbox
    form_shown,         \* the result form with its Submit button is on the page
    pending,            \* the waiting rerun request and the triggers it carries
    \* the script run in progress: the locals of main()
    pc,                 \* position of the run; "idle" between runs
    trig,               \* the button triggers the run was started with
    img, model_source, model_choice, model_lib, model, cam_extractor,
    transformed_img, rescaled_img,
    i, out, class_ids,
    activation,         \* the maps of the result being drawn
    results,            \* what result_cols[0..i-1] show
    feedback_ok, feedback_comment, feedback_submitted,
    feedback,           \* data of the Feedback object
    log                 \* what the run has done so far

ui == <<ui_image_filename, ui_uploaded_file, ui_model_choice>>
locals == <<trig, img, model_source, model_choice, model_lib, model, cam_extractor,
            transformed_img, rescaled_img, i, out, class_ids, activation,
            results, feedback_ok, feedback_comment, feedback_submitted,
            feedback, log>>
vars == <<ui, form_shown, pending, pc, locals>>

NoRequest == [req |-> FALSE, Diagnose |-> FALSE, Submit |-> FALSE]
NoTrigger == [Diagnose |-> FALSE, Submit |-> FALSE]
NoOut == [pass |-> -1, model |-> None, scores |-> <<>>]
NoClassIds == [pass |-> -1, ids |-> <<>>]
NoActivation == [slot |-> -1, nmaps |-> 0, first |-> NaN, map |-> NaN, fuse_calls |-> 0]
NoExtractor == [model |-> None, target_layer |-> None]
NoLog == [loads |-> 0, checked |-> "no", error |-> "", cam_inits |-> 0,
          preprocesses |-> 0, forwards |-> 0, widgets |-> 0, form |-> FALSE,
          records |-> 0]

\* the values of main()'s locals before its first line has run
Fresh ==
    /\ trig = NoTrigger
    /\ img = NoImage
    /\ model_source = None
    /\ model_choice = None
    /\ model_lib = AbstractModelLibrary
    /\ model = None
    /\ cam_extractor = NoExtractor
    /\ transformed_img = <<>>
    /\ rescaled_img = <<>>
    /\ i = 0
    /\ out = NoOut
    /\ class_ids = NoClassIds
    /\ activation = NoActivation
    /\ results = <<>>
    /\ feedback_ok = <<>>
    /\ feedback_comment = <<>>
    /\ feedback_submitted = None
    /\ feedback = <<>>
    /\ log = NoLog

\* a new session: default selections, and the first run of the script waiting
Init ==
    /\ ui_image_filename = None
    /\ ui_uploaded_file = NoImage
    /\ ui_model_choice = "densenet121-res224-all"
    /\ form_shown = FALSE
    /\ pending = [NoRequest EXCEPT !.req = TRUE]
    /\ pc = "idle"
    /\ Fresh

Reset ==
    /\ trig' = NoTrigger
    /\ img' = NoImage
    /\ model_source' = None
    /\ model_choice' = None
    /\ model_lib' = AbstractModelLibrary
    /\ model' = None
    /\ cam_extractor' = NoExtractor
    /\ transformed_img' = <<>>
    /\ rescaled_img' = <<>>
    /\ i' = 0
    /\ out' = NoOut
    /\ class_ids' = NoClassIds
    /\ activation' = NoActivation
    /\ results' = <<>>
    /\ feedback_ok' = <<>>
    /\ feedback_comment' = <<>>
    /\ feedback_submitted' = None
    /\ feedback' = <<>>
    /\ log' = NoLog

(***************************************************************************)
(* The user: every widget event asks for a rerun of the script             *)
(***************************************************************************)
\* a rerun request joins the waiting one; a trigger that is set stays set
Request(diagnose, submit) ==
    pending' = [req |-> TRUE,
                Diagnose |-> pending.Diagnose \/ diagnose,
                Submit |-> pending.Submit \/ submit]

\* st.sidebar.selectbox("Image Filename", ...)
SelectImage ==
    /\ \E f \in {None, "xray.png"} \ {ui_image_filename} : ui_image_filename' = f
    /\ Request(FALSE, FALSE)
    /\ UNCHANGED <<ui_uploaded_file, ui_model_choice, form_shown, pc, locals>>

\* st.sidebar.file_uploader("Upload files", ...): upload, replace or remove
UploadFile ==
    /\ \E f \in (Images \cup {NoImage}) \ {ui_uploaded_file} : ui_uploaded_file' = f
    /\ Request(FALSE, FALSE)
    /\ UNCHANGED <<ui_image_filename, ui_model_choice, form_shown, pc, locals>>

\* st.sidebar.selectbox("Model choice", model_lib.CHOICES)
SelectModel ==
    /\ \E c \in CHOICES \ {ui_model_choice} : ui_model_choice' = c
    /\ Request(FALSE, FALSE)
    /\ UNCHANGED <<ui_image_filename, ui_uploaded_file, form_shown, pc, locals>>

\* st.sidebar.button("Diagnose")
ClickDiagnose ==
    /\ Request(TRUE, FALSE)
    /\ UNCHANGED <<ui, form_shown, pc, locals>>

\* st.form_submit_button("Submit"): can be pressed while the form is shown
ClickSubmit ==
    /\ form_shown
    /\ Request(FALSE, TRUE)
    /\ UNCHANGED <<ui, form_shown, pc, locals>>

(***************************************************************************)
(* One run of main()                                                       *)
(***************************************************************************)
\* lines 31-105: the run starts with the widget state of its request
StartRun ==
    /\ pc = "idle"
    /\ pending.req
    /\ pending' = NoRequest
    /\ trig' = [Diagnose |-> pending.Diagnose, Submit |-> pending.Submit]
    /\ feedback' = <<>>
    /\ img' = IF ui_uploaded_file # NoImage THEN ui_uploaded_file
              ELSE IF ui_image_filename # None THEN StoreImage
              ELSE NoImage
    /\ \E source \in MODEL_SOURCES :
          /\ model_source' = source
          /\ model_lib' = IF source # None /\ source = "XRV" THEN XRVModelLibrary
                          ELSE AbstractModelLibrary
    /\ model_choice' = ui_model_choice
    /\ pc' = "get_model"
    /\ UNCHANGED <<ui, form_shown, model, cam_extractor, transformed_img,
                   rescaled_img, i, out, class_ids, activation, results,
                   feedback_ok, feedback_comment, feedback_submitted, log>>

\* lines 107-110: model = model_lib.get_model(model_choice).eval()
LoadModel ==
    /\ pc = "get_model"
    /\ IF model_source # None
       THEN /\ model_lib' = get_model_lib(model_lib, model_choice)
            /\ model' = model_choice
            /\ log' = [log EXCEPT !.loads = @ + 1]
       ELSE UNCHANGED <<model_lib, model, log>>
    /\ pc' = "button"
    /\ UNCHANGED <<ui, form_shown, pending, trig, img, model_source, model_choice,
                   cam_extractor, transformed_img, rescaled_img, i, out,
                   class_ids, activation, results, feedback_ok,
                   feedback_comment, feedback_submitted, feedback>>

\* lines 112-134: the feedback locals, the Diagnose button and its checks
DiagnoseButton ==
    /\ pc = "button"
    /\ feedback_submitted' = None
    /\ feedback_comment' = [k \in 1..NUM_RESULTS |-> None]
    /\ feedback_ok' = [k \in 1..NUM_RESULTS |-> FALSE]
    /\ \E cam_method \in CAM_METHODS :
          IF trig.Diagnose
          THEN LET verdict == Preconditions(img, model, cam_method)
               IN  IF verdict = "passed"
                   THEN /\ log' = [log EXCEPT !.checked = "passed"]
                        /\ pc' = "init_cam"
                   ELSE /\ log' = [log EXCEPT !.checked = "failed", !.error = verdict]
                        /\ pc' = "done"
          ELSE /\ log' = log
               /\ pc' = "done"
    /\ UNCHANGED <<ui, form_shown, pending, trig, img, model_source, model_choice, model_lib,
                   model, cam_extractor, transformed_img, rescaled_img, i, out,
                   class_ids, activation, results, feedback>>

\* lines 135-141: cam_extractor = methods.__dict__[cam_method](model, target_layer=...)
InitCAM ==
    /\ pc = "init_cam"
    /\ cam_extractor' = [model |-> model, target_layer |-> model_lib.TARGET_LAYER]
    /\ log' = [log EXCEPT !.cam_inits = @ + 1]
    /\ pc' = "preprocess"
    /\ UNCHANGED <<ui, form_shown, pending, trig, img, model_source, model_choice, model_lib,
                   model, transformed_img, rescaled_img, i, out, class_ids,
                   activation, results, feedback_ok, feedback_comment,
                   feedback_submitted, feedback>>

\* lines 143-154: preprocess the image, open the form and its columns
Preprocess ==
    /\ pc = "preprocess"
    /\ IF img = NoImage
       THEN \* img_tensor is bound on line 78 only when there is an image
            /\ log' = [log EXCEPT !.error = "NameError"]
            /\ pc' = "done"
            /\ UNCHANGED <<transformed_img, rescaled_img>>
       ELSE /\ transformed_img' = preprocess(img).transformed
            /\ rescaled_img' = preprocess(img).rescaled
            /\ log' = [log EXCEPT !.preprocesses = @ + 1]
            /\ pc' = "forward"
    /\ i' = 0
    /\ UNCHANGED <<ui, form_shown, pending, trig, img, model_source, model_choice, model_lib,
                   model, cam_extractor, out, class_ids, activation, results,
                   feedback_ok, feedback_comment, feedback_submitted, feedback>>

\* out = model(rescaled_img.unsqueeze(0)): out is bound anew in every
\* iteration (it: the iteration, prev: the binding it replaces)
ForwardOut_hoisted(m, x, it, prev) ==
    IF it = 0 THEN [pass |-> it, model |-> m, scores |-> Forward(m, x)] ELSE prev
ForwardOut(m, x, it, prev) ==
    [pass |-> it, model |-> m, scores |-> Forward(m, x)]

\* lines 156-161: forward pass and top-K of iteration i
ForwardPass ==
    /\ pc = "forward"
    /\ out' = ForwardOut(model, rescaled_img, i, out)
    /\ class_ids' = [pass |-> out'.pass, ids |-> topk(out'.scores, NUM_RESULTS)]
    /\ log' = [log EXCEPT !.forwards = @ + 1]
    /\ pc' = "explain"
    /\ UNCHANGED <<ui, form_shown, pending, trig, img, model_source, model_choice, model_lib,
                   model, cam_extractor, transformed_img, rescaled_img, i,
                   activation, results, feedback_ok, feedback_comment,
                   feedback_submitted, feedback>>

\* lines 163-180: label, raw maps, fusion and overlay of result i
Explain ==
    /\ pc = "explain"
    /\ LET class_idx == SelectTarget(class_ids.ids, i)
           class_label == LabelOf(model_lib.LABELS, class_idx)
       IN  IF class_label = "IndexError"
           THEN /\ log' = [log EXCEPT !.error = "IndexError"]
                /\ pc' = "done"
                /\ UNCHANGED <<activation, results>>
           ELSE /\ \E n \in 1..MaxMaps :
                      LET activation_maps == cam_call(cam_extractor, class_idx, out, n)
                          fused == FuseIfSeveral(activation_maps)
                      IN  /\ activation' = [slot |-> i, nmaps |-> n,
                                            first |-> activation_maps[1],
                                            map |-> fused.map,
                                            fuse_calls |-> fused.fuse_calls]
                          /\ results' = Append(results,
                                 [slot |-> i, class_idx |-> class_idx,
                                  class_label |-> class_label,
                                  background |-> transformed_img,
                                  class_pass |-> class_ids.pass,
                                  cam_pass |-> fused.map.pass,
                                  prob_pass |-> -1, probability |-> NaN])
                /\ pc' = "feedback"
                /\ log' = log
    /\ UNCHANGED <<ui, form_shown, pending, trig, img, model_source, model_choice, model_lib,
                   model, cam_extractor, transformed_img, rescaled_img, i, out,
                   class_ids, feedback_ok, feedback_comment, feedback_submitted,
                   feedback>>

\* lines 182-187: probability, Confirm checkbox and Comment field of result i
FeedbackWidgets ==
    /\ pc = "feedback"
    /\ LET score == out.scores[SelectTarget(class_ids.ids, i) + 1]
       IN  results' = [results EXCEPT
                          ![i + 1].prob_pass = out.pass,
                          ![i + 1].probability = [score EXCEPT !.num = @ * 100]]
    /\ \E ok \in BOOLEAN, comment \in Comments :
          /\ \/ i < MaxEdits
             \/ ~ok /\ comment = ""
          /\ feedback_ok' = [feedback_ok EXCEPT ![i + 1] = ok]
          /\ feedback_comment' = [feedback_comment EXCEPT ![i + 1] = comment]
    /\ activation' = NoActivation
    /\ log' = [log EXCEPT !.widgets = @ + 1]
    /\ i' = i + 1
    /\ pc' = IF i + 1 < NUM_RESULTS THEN "forward" ELSE "submit_button"
    /\ UNCHANGED <<ui, form_shown, pending, trig, img, model_source, model_choice, model_lib,
                   model, cam_extractor, transformed_img, rescaled_img, out,
                   class_ids, feedback_submitted, feedback>>

\* line 189: feedback_submitted = st.form_submit_button("Submit")
SubmitButton ==
    /\ pc = "submit_button"
    /\ feedback_submitted' = Str(trig.Submit)
    /\ form_shown' = TRUE
    /\ log' = [log EXCEPT !.form = TRUE]
    /\ pc' = "emit"
    /\ UNCHANGED <<ui, pending, trig, img, model_source, model_choice, model_lib, model,
                   cam_extractor, transformed_img, rescaled_img, i, out,
                   class_ids, activation, results, feedback_ok,
                   feedback_comment, feedback>>

\* lines 191-199: build the feedback record and show the feedback summary
EmitFeedback ==
    /\ pc = "emit"
    /\ IF Truthy(feedback_submitted)
       THEN /\ feedback' = BuildFeedback(feedback_ok, feedback_comment)
            /\ log' = [log EXCEPT !.records = @ + 1]
       ELSE UNCHANGED <<feedback, log>>
    /\ pc' = "done"
    /\ UNCHANGED <<ui, form_shown, pending, trig, img, model_source, model_choice, model_lib,
                   model, cam_extractor, transformed_img, rescaled_img, i, out,
                   class_ids, activation, results, feedback_ok,
                   feedback_comment, feedback_submitted>>

\* main() returns: what the run did not render again leaves the page
EndRun ==
    /\ pc = "done"
    /\ form_shown' = log.form
    /\ pc' = "idle"
    /\ Reset
    /\ UNCHANGED <<ui, pending>>

\* a rerun request is waiting: the run is abandoned at an st.* call
Interrupt ==
    /\ pc \notin {"idle", "done"}
    /\ pending.req
    /\ pc' = "idle"
    /\ Reset
    /\ UNCHANGED <<ui, form_shown, pending>>

Next ==
    \/ SelectImage
    \/ UploadFile
    \/ SelectModel
    \/ ClickDiagnose
    \/ ClickSubmit
    \/ StartRun
    \/ LoadModel
    \/ DiagnoseButton
    \/ InitCAM
    \/ Preprocess
    \/ ForwardPass
    \/ Explain
    \/ FeedbackWidgets
    \/ SubmitButton
    \/ EmitFeedback
    \/ EndRun
    \/ Interrupt

Spec == Init /\ [][Next]_vars

(***************************************************************************)
(* Properties                                                              *)
(***************************************************************************)
K == NUM_RESULTS
Running == pc # "idle"
\* the run has drawn the whole form: all K results and the Submit button
Completed == pc \in {"emit", "done"} /\ log.checked = "passed" /\ log.form
Midpoint(x) == ~IsNaN(x) /\ x.num = 0

\* C1: the run that handles a Submit event alone (pressed on the form that
\* a completed Diagnose run has shown) ends having emitted exactly one
\* feedback record, with the fields of all NUM_RESULTS results.
C1_SubmitEmitsOneRecord ==
    (pc = "done" /\ trig.Submit /\ ~trig.Diagnose)
        => (log.records = 1 /\ Len(feedback) = 2 * K)

\* C2: every emitted feedback record holds exactly the 2*K fields
\* result{i}_confirm, result{i}_comment for i = 0..K-1, in ascending i.
C2_RecordHasAllFields ==
    (log.records > 0 \/ feedback # <<>>)
        => [k \in DOMAIN feedback |-> feedback[k].key]
             = <<"result0_confirm", "result0_comment",
                 "result1_confirm", "result1_comment",
                 "result2_confirm", "result2_comment",
                 "result3_confirm", "result3_comment",
                 "result4_confirm", "result4_comment">>

\* C2 witness: a run has ended with a record emitted, the first result confirmed
C2_RecordEmitted ==
    pc = "done" /\ log.records = 1 /\ feedback[1].value = "True"

\* C3: in every run, no classifier load (get_model) and no forward pass has
\* happened unless the Diagnose preconditions have been checked and passed.
C3_ChecksBeforeExpensiveWork ==
    (log.loads > 0 \/ log.forwards > 0) => log.checked = "passed"

\* C4: a completed Diagnose cycle has exactly K results and K feedback
\* entries, for slots 0..K-1, and the K class indices are pairwise distinct.
C4_KDistinctResults ==
    Completed
        => /\ Len(results) = K
           /\ log.widgets = K
           /\ Len(feedback_ok) = K /\ Len(feedback_comment) = K
           /\ \A k \in 1..K : results[k].slot = k - 1
           /\ \A a, b \in 1..K :
                 a # b => results[a].class_idx # results[b].class_idx

\* C4 witness: a Diagnose cycle has completed on an image whose scores tie
C4_CycleCompleted ==
    /\ pc = "done" /\ Completed /\ Len(results) = K
    /\ \E a, b \in DOMAIN out.scores : a # b /\ out.scores[a] = out.scores[b]

\* C5: preprocess of a constant-intensity image (max = min after the
\* transform) yields the window midpoint everywhere or fails with the
\* documented error; it never yields NaN.
C5_ConstantImageHandled ==
    (log.preprocesses > 0 /\ SeqMin(transformed_img) = SeqMax(transformed_img))
        => \/ \A k \in DOMAIN rescaled_img : Midpoint(rescaled_img[k])
           \/ log.error = "DegenerateImage"

\* C6: a run in which Diagnose was pressed with no image present does no
\* preprocessing, builds no CAM extractor, makes no forward pass, draws no
\* result or form and emits no record, and ends with the missing-image error.
C6_NoImageNoWork ==
    (Running /\ trig.Diagnose /\ img = NoImage)
        => /\ log.preprocesses = 0
           /\ log.cam_inits = 0
           /\ log.forwards = 0
           /\ results = <<>> /\ log.widgets = 0 /\ ~log.form
           /\ log.records = 0 /\ feedback = <<>>
           /\ pc = "done" => log.error = "Please upload an image first"

\* C6 witness: a Diagnose run without an image has ended with the error
C6_MissingImageReported ==
    /\ pc = "done" /\ trig.Diagnose /\ img = NoImage
    /\ log.error = "Please upload an image first"

\* C7: in a run in which the Submit button was not pressed, no feedback
\* record is built or displayed.
C7_RecordOnlyOnSubmit ==
    ~trig.Submit => (log.records = 0 /\ feedback = <<>>)

\* C7 witness: a Diagnose run without Submit has drawn the whole form and
\* ended without a record, the user having filled in a field
C7_FormWithoutRecord ==
    /\ pc = "done" /\ Completed /\ ~trig.Submit
    /\ feedback_ok[1] /\ log.records = 0

\* C8: for every result slot, the class index, the scores handed to the
\* attribution backend and the displayed probability all come from the
\* forward pass of that slot's own loop iteration.
C8_ScoresOfOwnIteration ==
    /\ \A k \in DOMAIN results :
          /\ results[k].class_pass = results[k].slot
          /\ results[k].cam_pass = results[k].slot
          /\ results[k].prob_pass \in {-1, results[k].slot}
          /\ (k < Len(results) \/ pc # "feedback") => results[k].prob_pass = results[k].slot
    /\ pc = "feedback" => activation.map.pass = i

\* C8 witness: the last slot has been drawn from the last forward pass
C8_LastSlotDrawn ==
    /\ Len(results) = K /\ results[K].prob_pass = K - 1
    /\ results[K].cam_pass = K - 1 /\ log.forwards = K

\* C9: when the backend returns one raw map, the saliency map is that map
\* and fuse_cams is not called; when it returns several, the saliency map
\* is the result of one fuse_cams call over all of them.
C9_FusionRule ==
    pc = "feedback"
        => /\ activation.nmaps = 1
                => activation.map = activation.first /\ activation.fuse_calls = 0
           /\ activation.nmaps > 1
                => /\ activation.fuse_calls = 1
                   /\ activation.map.kind = "fused"
                   /\ activation.map.parts = activation.nmaps

\* C9 witness: a result drawn from a single raw map, after one drawn from several
C9_SingleMapUsed ==
    /\ pc = "feedback" /\ i > 0
    /\ activation.nmaps = 1 /\ activation.map.kind = "raw"

\* C10: when the CAM extractor is built and when a label is looked up,
\* get_model has run in this script run on this library, so the target
\* layer is set and the labels are those of the model of the forward pass.
C10_LibraryLoadedBeforeUse ==
    /\ log.cam_inits > 0
          => /\ log.loads > 0
             /\ cam_extractor.target_layer # None
             /\ cam_extractor.target_layer = FeatureLayer(model_choice)
             /\ cam_extractor.model = model_choice
    /\ results # <<>>
          => /\ log.loads > 0
             /\ model_lib.LABELS = Targets(out.model)
             /\ out.model = model_choice
             /\ \A k \in DOMAIN results :
                   results[k].class_label = Targets(out.model)[results[k].class_idx + 1]

\* C10 witness: labels of the second model looked up in a completed cycle
C10_SecondModelLabelled ==
    /\ Completed /\ model_choice = "densenet121-res224-rsna"
    /\ results[1].class_label \in {"Pneumonia", "Lung Opacity"}
             \cup {"rsna-0", "rsna-1", "rsna-2", "rsna-3", "rsna-4"}

=============================================================================
